---- MODULE Spec2Model ----
(***************************************************************************)
(* Model of the binary image engine (src/shape/image_operations.rs) and    *)
(* of the line-intersection kernel (src/path/util.rs) of visioncortex.     *)
(***************************************************************************)
EXTENDS Integers, Sequences, FiniteSets, TLC

VARIABLES
    a, b, nops, count,                             \* Boolean algebra layer
    prev, cur, last, calls, pc, work, depth,       \* morphology layer
    clusters, divisor, threshold, sdiff, spc, score,  \* significance scorer
    p1, p2, p3, p4, gpc, found, aborted            \* geometry kernel

algVars == <<a, b, nops, count>>
morVars == <<prev, cur, last, calls, pc, work, depth>>
sigVars == <<clusters, divisor, threshold, sdiff, spc, score>>
geoVars == <<p1, p2, p3, p4, gpc, found, aborted>>
vars == <<algVars, morVars, sigVars, geoVars>>

(***************************************************************************)
(* Bounds of the model.                                                    *)
(***************************************************************************)
AlgMaxW == 3
AlgMaxH == 3
AlgMaxSet == 1
AlgMaxOps == 1
MorMaxW == 3
MorMaxH == 3
MorMaxSet == 4
MorMaxCalls == 2
BigMaxW == 4
BigMaxH == 4
BigMaxSet == 6
SigMaxClusters == 2
SigMaxStat == 2
SigMaxArea == 2
SigMaxWidth == 2
SigMaxThreshold == 2
SigLargeThreshold == 100000
GeoMax == 1
DepthCap == 3

(***************************************************************************)
(* Bit-packed pixel storage.  An image is a record of width, height and a  *)
(* row-major sequence of booleans (1-based here, 0-based in the source).   *)
(***************************************************************************)
BitsPerByte == 8

NumBytes(nbits) == (nbits + BitsPerByte - 1) \div BitsPerByte

BitOf(v, j) == (v \div (2 ^ j)) % 2

\* the u8 of bits bit[0] (least significant) .. bit[7]
U8(bit) ==
    bit[0] + 2 * bit[1] + 4 * bit[2] + 8 * bit[3]
    + 16 * bit[4] + 32 * bit[5] + 64 * bit[6] + 128 * bit[7]

\* BitVec::to_bytes: bit 8k+j of the vector is bit (7-j) of byte k; bits past
\* the end of the vector read as 0.
ToBytes(pixels) ==
    [k \in 1..NumBytes(Len(pixels)) |->
        U8([j \in 0..7 |->
              LET idx == BitsPerByte * (k - 1) + (7 - j) + 1
              IN  IF idx <= Len(pixels) /\ pixels[idx] THEN 1 ELSE 0])]

\* BitVec::from_bytes: the vector has 8 bits per byte, most significant first.
FromBytes(bytes) ==
    [i \in 1..(BitsPerByte * Len(bytes)) |->
        BitOf(bytes[((i - 1) \div BitsPerByte) + 1], 7 - ((i - 1) % BitsPerByte)) = 1]

new_w_h(w, h) ==
    [width |-> w, height |-> h,
     pixels |-> [i \in 1..(BitsPerByte * NumBytes(w * h)) |-> FALSE]]

get_pixel(img, x, y) == img.pixels[y * img.width + x + 1]

set_pixel(img, x, y, v) ==
    [img EXCEPT !.pixels = [img.pixels EXCEPT ![y * img.width + x + 1] = v]]

(***************************************************************************)
(* Boolean algebra layer.                                                  *)
(***************************************************************************)
Not8(x) == U8([j \in 0..7 |-> 1 - BitOf(x, j)])

\* faulty variant: x1 and not x2 (set difference) instead of exclusive or
AndNot8(x1, x2) == U8([j \in 0..7 |-> BitOf(x1, j) * (1 - BitOf(x2, j))])

Xor8(x1, x2) == U8([j \in 0..7 |-> (BitOf(x1, j) + BitOf(x2, j)) % 2])

Or8(x1, x2) == U8([j \in 0..7 |-> IF BitOf(x1, j) + BitOf(x2, j) > 0 THEN 1 ELSE 0])

And8(x1, x2) == U8([j \in 0..7 |-> BitOf(x1, j) * BitOf(x2, j)])

SameSize(self, other) == self.width = other.width /\ self.height = other.height

Bytes == 0..255

\* operator is the closure, a function of the pair (x1, x2) to the new x1
operation(self, other, operator) ==
    LET i == ToBytes(self.pixels)
        u == ToBytes(other.pixels)
        ii == [k \in 1..Len(i) |-> IF k <= Len(u) THEN operator[<<i[k], u[k]>>] ELSE i[k]]
    IN  [pixels |-> FromBytes(ii), width |-> self.width, height |-> self.height]

negative(self) ==
    LET i == ToBytes(self.pixels)
        ii == [k \in 1..Len(i) |-> Not8(i[k])]
    IN  [pixels |-> FromBytes(ii), width |-> self.width, height |-> self.height]

diff(self, other) == operation(self, other, [x \in Bytes \X Bytes |-> Xor8(x[1], x[2])])

union(self, other) == operation(self, other, [x \in Bytes \X Bytes |-> Or8(x[1], x[2])])

intersect(self, other) == operation(self, other, [x \in Bytes \X Bytes |-> And8(x[1], x[2])])

\* A u32 is kept as its two 16-bit halves [hi, lo], of value hi * 65536 + lo.
RECURSIVE CountOnes(_)
CountOnes(i) == IF i = 0 THEN 0 ELSE (i % 2) + CountOnes(i \div 2)

popcount(i) == CountOnes(i.hi) + CountOnes(i.lo)

WordBytes == 4

from_be_bytes(b0, b1, b2, b3) == [hi |-> b0 * 256 + b1, lo |-> b2 * 256 + b3]

RECURSIVE PadToWord(_)
PadToWord(i) == IF Len(i) % WordBytes # 0 THEN PadToWord(Append(i, 0)) ELSE i

RECURSIVE CountWords(_, _)
CountWords(i, ii) ==
    IF ii >= Len(i) THEN 0
    ELSE popcount(from_be_bytes(i[ii + 1], i[ii + 2], i[ii + 3], i[ii + 4]))
         + CountWords(i, ii + WordBytes)

diff_and_count(self, other) ==
    LET i0 == ToBytes(self.pixels)
        u == ToBytes(other.pixels)
        i1 == [k \in 1..Len(i0) |-> IF k <= Len(u) THEN Xor8(i0[k], u[k]) ELSE i0[k]]
    IN  CountWords(PadToWord(i1), 0)

(***************************************************************************)
(* Morphology layer.                                                       *)
(***************************************************************************)
Coords(img) == (0..(img.width - 1)) \X (0..(img.height - 1))

TrueSet(img) == {c \in Coords(img) : get_pixel(img, c[1], c[2])}

\* set_pixel(x, y, true) for every (x, y) of S
SetAll(img, S) ==
    [img EXCEPT !.pixels =
        [i \in 1..Len(img.pixels) |->
            \/ img.pixels[i]
            \/ \E c \in S : c[2] * img.width + c[1] + 1 = i]]

DilateReach == 2

dilate(self) ==
    LET hit == {n \in Coords(self) :
                  \E c \in TrueSet(self) :
                      /\ n[1] - c[1] \in (-DilateReach)..DilateReach
                      /\ n[2] - c[2] \in (-DilateReach)..DilateReach}
    IN  SetAll(new_w_h(self.width, self.height), hit)

\* faulty variant: the additions are made on a fresh canvas instead of a clone of self
fix_diagonal_cc_fresh(self) ==
    LET g(x, y) == get_pixel(self, x, y)
        w == self.width
        centres == {c \in (1..(self.width - 2)) \X (1..(self.height - 2)) : g(c[1], c[2])}
        up(x, y) == \/ g(x - 1, y - 1) /\ ~g(x - 1, y) /\ ~g(x, y - 1)
                    \/ g(x + 1, y - 1) /\ ~g(x + 1, y) /\ ~g(x, y - 1)
        down(x, y) == \/ g(x - 1, y + 1) /\ ~g(x - 1, y) /\ ~g(x, y + 1)
                      \/ g(x + 1, y + 1) /\ ~g(x + 1, y) /\ ~g(x, y + 1)
        to_add == {(c[2] - 1) * w + c[1] : c \in {d \in centres : up(d[1], d[2])}}
                  \cup {(c[2] + 1) * w + c[1] : c \in {d \in centres : down(d[1], d[2])}}
    IN  SetAll(new_w_h(self.width, self.height), {<<index % w, index \div w>> : index \in to_add})

fix_diagonal_cc(self) ==
    LET g(x, y) == get_pixel(self, x, y)
        w == self.width
        centres == {c \in (1..(self.width - 2)) \X (1..(self.height - 2)) : g(c[1], c[2])}
        up(x, y) == \/ g(x - 1, y - 1) /\ ~g(x - 1, y) /\ ~g(x, y - 1)
                    \/ g(x + 1, y - 1) /\ ~g(x + 1, y) /\ ~g(x, y - 1)
        down(x, y) == \/ g(x - 1, y + 1) /\ ~g(x - 1, y) /\ ~g(x, y + 1)
                      \/ g(x + 1, y + 1) /\ ~g(x + 1, y) /\ ~g(x, y + 1)
        to_add == {(c[2] - 1) * w + c[1] : c \in {d \in centres : up(d[1], d[2])}}
                  \cup {(c[2] + 1) * w + c[1] : c \in {d \in centres : down(d[1], d[2])}}
    IN  SetAll(self, {<<index % w, index \div w>> : index \in to_add})

\* faulty variant: only the four orthogonal neighbours
Neighbours4(cx, cy) ==
    << <<cx, cy - 1>>, <<cx - 1, cy>>, <<cx + 1, cy>>, <<cx, cy + 1>> >>

\* the eight neighbours in the order of the loops: dy outer, dx inner
Neighbours(cx, cy) ==
    << <<cx - 1, cy - 1>>, <<cx, cy - 1>>, <<cx + 1, cy - 1>>,
       <<cx - 1, cy>>,                     <<cx + 1, cy>>,
       <<cx - 1, cy + 1>>, <<cx, cy + 1>>, <<cx + 1, cy + 1>> >>

\* the while-let loop over the explicit stack
RECURSIVE FloodFill(_, _, _, _)
FloodFill(self, stack, visited, component) ==
    IF stack = <<>> THEN [visited |-> visited, component |-> component]
    ELSE LET c == stack[Len(stack)]
             rest == SubSeq(stack, 1, Len(stack) - 1)
             idx == c[2] * self.width + c[1]
             seen == visited \cup {idx}
             push(n) == /\ n[1] >= 0 /\ n[2] >= 0
                        /\ n[1] < self.width /\ n[2] < self.height
                        /\ get_pixel(self, n[1], n[2])
                        /\ (n[2] * self.width + n[1]) \notin seen
         IN  IF idx \in visited
             THEN FloodFill(self, rest, visited, component)
             ELSE FloodFill(self, rest \o SelectSeq(Neighbours(c[1], c[2]), push),
                            seen, Append(component, c))

\* the row-major scan (y outer, x inner) that discovers the components
RECURSIVE Scan(_, _, _, _)
Scan(self, pos, visited, components) ==
    IF pos >= self.width * self.height THEN components
    ELSE LET x == pos % self.width
             y == pos \div self.width
         IN  IF get_pixel(self, x, y) /\ pos \notin visited
             THEN LET f == FloodFill(self, << <<x, y>> >>, visited, <<>>)
                  IN  Scan(self, pos + 1, f.visited, Append(components, f.component))
             ELSE Scan(self, pos + 1, visited, components)

Components(self) == Scan(self, 0, {}, <<>>)

\* Iterator::max_by_key: of several maximal elements the last one is returned
RECURSIVE MaxByKeyFrom(_, _, _)
MaxByKeyFrom(components, k, best) ==
    IF k > Len(components) THEN best
    ELSE MaxByKeyFrom(components, k + 1,
                      IF Len(components[k]) >= Len(components[best]) THEN k ELSE best)

\* faulty variant: of several maximal elements the first one is returned
RECURSIVE MinByKeyFrom(_, _, _)
MinByKeyFrom(components, k, best) ==
    IF k > Len(components) THEN best
    ELSE MinByKeyFrom(components, k + 1,
                      IF Len(components[k]) > Len(components[best]) THEN k ELSE best)

max_by_key_first(components) == components[MinByKeyFrom(components, 2, 1)]

max_by_key(components) == components[MaxByKeyFrom(components, 2, 1)]

SeqRange(s) == {s[k] : k \in 1..Len(s)}

\* faulty variant: the new image starts as a clone of self instead of an empty canvas
RdcBodyClone(self) ==
    LET components == Components(self)
        largest == max_by_key(components)
        image == SetAll(self, SeqRange(largest))
    IN  [ncomp |-> Len(components),
         fixed_image |-> IF components = <<>> THEN self ELSE fix_diagonal_cc(image)]

\* one invocation of remove_disjoint_components, up to the recursive call
RdcBody(self) ==
    LET components == Components(self)
        largest == max_by_key(components)
        image == SetAll(new_w_h(self.width, self.height), SeqRange(largest))
    IN  [ncomp |-> Len(components),
         fixed_image |-> IF components = <<>> THEN self ELSE fix_diagonal_cc(image)]

(***************************************************************************)
(* Values of the variables of the layers a specification does not use.     *)
(***************************************************************************)
NoImage == [width |-> 0, height |-> 0, pixels |-> <<>>]
NoCount == <<>>
NoPoint == <<0, 0>>

AlgIdle == a = NoImage /\ b = NoImage /\ nops = 0 /\ count = NoCount
MorIdle == /\ prev = NoImage /\ cur = NoImage /\ work = NoImage
           /\ last = "none" /\ calls = 0 /\ pc = "idle" /\ depth = 0
SigIdle == /\ clusters = <<>> /\ divisor = 0 /\ threshold = 0
           /\ sdiff = 0 /\ spc = "idle" /\ score = 0
GeoIdle == /\ p1 = NoPoint /\ p2 = NoPoint /\ p3 = NoPoint /\ p4 = NoPoint
           /\ gpc = "idle" /\ found = <<"None">> /\ aborted = FALSE

(***************************************************************************)
(* Boolean algebra layer: two images of one size, built by new_w_h and     *)
(* set_pixel and then combined by the operations of the layer.             *)
(***************************************************************************)
Registers == {"a", "b"}
Reg(r) == IF r = "a" THEN a ELSE b
Other(r) == IF r = "a" THEN b ELSE a
Store(r, img) == IF r = "a" THEN a' = img /\ b' = b ELSE b' = img /\ a' = a

AlgInit ==
    /\ \E w \in 1..AlgMaxW, h \in 1..AlgMaxH :
          a = new_w_h(w, h) /\ b = new_w_h(w, h)
    /\ nops = 0 /\ count = NoCount
    /\ MorIdle /\ SigIdle /\ GeoIdle

AlgSetPixel(r, x, y, v) ==
    /\ nops = 0
    /\ Cardinality(TrueSet(a)) + Cardinality(TrueSet(b)) < AlgMaxSet
    /\ Store(r, set_pixel(Reg(r), x, y, v))
    /\ count' = NoCount
    /\ UNCHANGED <<nops, morVars, sigVars, geoVars>>

AlgApply(r, img) ==
    /\ nops < AlgMaxOps
    /\ nops' = nops + 1
    /\ Store(r, img)
    /\ count' = NoCount
    /\ UNCHANGED <<morVars, sigVars, geoVars>>

AlgNegative(r) == AlgApply(r, negative(Reg(r)))

\* the two registers are built alike, so the results are stored in a only
AlgDiff == SameSize(a, b) /\ AlgApply("a", diff(a, b))

AlgUnion == SameSize(a, b) /\ AlgApply("a", union(a, b))

AlgIntersect == SameSize(a, b) /\ AlgApply("a", intersect(a, b))

AlgDilate == AlgApply("a", dilate(a))

AlgFixDiagonalCc == AlgApply("a", fix_diagonal_cc(a))

AlgDiffAndCount ==
    /\ SameSize(a, b)
    /\ count = NoCount
    /\ count' = <<diff_and_count(a, b)>>
    /\ UNCHANGED <<a, b, nops, morVars, sigVars, geoVars>>

AlgNext ==
    \/ \E r \in Registers, c \in Coords(a), v \in BOOLEAN : AlgSetPixel(r, c[1], c[2], v)
    \/ \E r \in Registers : AlgNegative(r)
    \/ AlgDiff
    \/ AlgUnion
    \/ AlgIntersect
    \/ AlgDilate
    \/ AlgFixDiagonalCc
    \/ AlgDiffAndCount

AlgSpec == AlgInit /\ [][AlgNext]_vars

(***************************************************************************)
(* Morphology layer: one image, built by new_w_h and set_pixel, to which   *)
(* fix_diagonal_cc is applied, or remove_disjoint_components repeatedly.   *)
(* The recursion of remove_disjoint_components is a tail call: each        *)
(* invocation is one MorRdcInvoke step on the image `work`, and no other   *)
(* step is taken while a call is running.                                  *)
(***************************************************************************)
MorStart(maxw, maxh) ==
    /\ \E w \in 1..maxw, h \in 1..maxh : cur = new_w_h(w, h)
    /\ prev = NoImage /\ work = NoImage
    /\ last = "none" /\ calls = 0 /\ pc = "idle" /\ depth = 0
    /\ AlgIdle /\ SigIdle /\ GeoIdle

\* The builder sets pixels in row-major order, which reaches every image
\* of at most maxset true pixels exactly once.
MorSetPixel(x, y, maxset) ==
    /\ pc = "idle" /\ last = "none"
    /\ Cardinality(TrueSet(cur)) < maxset
    /\ \A c \in TrueSet(cur) : c[2] * cur.width + c[1] < y * cur.width + x
    /\ cur' = set_pixel(cur, x, y, TRUE)
    /\ UNCHANGED <<prev, last, calls, pc, work, depth, algVars, sigVars, geoVars>>

\* fix_diagonal_cc on the built image
MorFixDiagonalCc ==
    /\ pc = "idle" /\ last = "none"
    /\ prev' = cur
    /\ cur' = fix_diagonal_cc(cur)
    /\ last' = "fix"
    /\ UNCHANGED <<calls, pc, work, depth, algVars, sigVars, geoVars>>

\* a call on the built image or on the result of the previous call
MorRdcCall ==
    /\ pc = "idle" /\ last # "fix"
    /\ calls < MorMaxCalls
    /\ calls' = calls + 1
    /\ pc' = "running"
    /\ work' = cur
    /\ depth' = 0
    /\ UNCHANGED <<prev, cur, last, algVars, sigVars, geoVars>>

MorRdcInvoke ==
    /\ pc = "running"
    /\ LET r == RdcBody(work)
       IN  IF r.ncomp = 0
           THEN \* Option::unwrap of None
                /\ pc' = "panicked"
                /\ UNCHANGED <<prev, cur, last, work, depth>>
           ELSE IF r.ncomp > 1
           THEN /\ work' = r.fixed_image
                /\ depth' = IF depth < DepthCap THEN depth + 1 ELSE depth
                /\ UNCHANGED <<prev, cur, last, pc>>
           ELSE /\ prev' = cur
                /\ cur' = r.fixed_image
                /\ last' = "rdc"
                /\ pc' = "idle"
                /\ UNCHANGED <<work, depth>>
    /\ UNCHANGED <<calls, algVars, sigVars, geoVars>>

MorInit == MorStart(MorMaxW, MorMaxH)

MorNext ==
    \/ \E c \in Coords(cur) : MorSetPixel(c[1], c[2], MorMaxSet)
    \/ MorFixDiagonalCc
    \/ MorRdcCall
    \/ MorRdcInvoke

MorSpec == MorInit /\ [][MorNext]_vars

\* the same layer on larger images
BigInit == MorStart(BigMaxW, BigMaxH)

BigNext ==
    \/ \E c \in Coords(cur) : MorSetPixel(c[1], c[2], BigMaxSet)
    \/ MorFixDiagonalCc
    \/ MorRdcCall
    \/ MorRdcInvoke

BigSpec == BigInit /\ [][BigNext]_vars

(***************************************************************************)
(* Properties of the morphology layer.                                     *)
(***************************************************************************)
Adjacent8(c, d) ==
    /\ c # d
    /\ c[1] - d[1] \in -1..1
    /\ c[2] - d[2] \in -1..1

RECURSIVE Grow(_, _)
Grow(R, S) ==
    LET N == {d \in S \ R : \E c \in R : Adjacent8(c, d)}
    IN  IF N = {} THEN R ELSE Grow(R \cup N, S)

\* the maximal 8-connected subsets of a set of pixels
ComponentSets(S) == {Grow({c}, S) : c \in S}

OneComponent(S) == Cardinality(ComponentSets(S)) = 1

FirstIndex(K, w) ==
    CHOOSE i \in {c[2] * w + c[1] : c \in K} : \A c \in K : i <= c[2] * w + c[1]

Largest(img) ==
    {K \in ComponentSets(TrueSet(img)) :
        \A L \in ComponentSets(TrueSet(img)) : Cardinality(L) <= Cardinality(K)}

\* of the largest components, the one the row-major scan meets first / last
FirstLargest(img) ==
    CHOOSE K \in Largest(img) :
        \A L \in Largest(img) : FirstIndex(K, img.width) <= FirstIndex(L, img.width)

LastLargest(img) ==
    CHOOSE K \in Largest(img) :
        \A L \in Largest(img) : FirstIndex(K, img.width) >= FirstIndex(L, img.width)

RdcReturned == pc = "idle" /\ last = "rdc"

\* C1 (as claimed): remove_disjoint_components keeps, of the input's pixels,
\* exactly the largest component, and of several largest components the one
\* the row-major scan discovers first.
C1_KeepsFirstLargest ==
    RdcReturned => TrueSet(cur) \cap TrueSet(prev) = FirstLargest(prev)

\* the image whose only true pixels are the first and the last of the canvas
TwoCorners(img) ==
    /\ img.width * img.height >= 2
    /\ TrueSet(img) = {<<0, 0>>, <<img.width - 1, img.height - 1>>}
    /\ ~Adjacent8(<<0, 0>>, <<img.width - 1, img.height - 1>>)

\* C1 (amended): remove_disjoint_components keeps, of the input's pixels,
\* exactly the largest component, and of several largest components the one
\* the row-major scan discovers last; on the image with only (0,0) and the
\* opposite corner true (on a 4x4 image: (3,3)) the result is that corner
\* alone.
C1_KeepsLastLargest ==
    RdcReturned =>
        /\ TrueSet(cur) \cap TrueSet(prev) = LastLargest(prev)
        /\ TwoCorners(prev) => TrueSet(cur) = {<<prev.width - 1, prev.height - 1>>}

C1_Witness ==
    /\ RdcReturned
    /\ TwoCorners(prev)
    /\ FirstLargest(prev) = {<<0, 0>>}
    /\ TrueSet(cur) = {<<prev.width - 1, prev.height - 1>>}

\* C2 (as claimed): applying remove_disjoint_components to its own result
\* returns that result unchanged.
C2_Idempotent ==
    (RdcReturned /\ calls >= 2) => cur = prev

\* C2 (amended): applying remove_disjoint_components to its own result R
\* returns fix_diagonal_cc(R); and on an image X that is a single 8-connected
\* component the first application returns fix_diagonal_cc(X).
C2_SecondIsRepair ==
    /\ (RdcReturned /\ calls >= 2) => cur = fix_diagonal_cc(prev)
    /\ (RdcReturned /\ OneComponent(TrueSet(prev))) => cur = fix_diagonal_cc(prev)

C2_Witness ==
    /\ RdcReturned /\ calls >= 2
    /\ cur # prev
    /\ cur = fix_diagonal_cc(prev)

\* C8: fix_diagonal_cc never removes a true pixel and keeps width and height.
C8_FixKeepsPixels ==
    (pc = "idle" /\ last = "fix") =>
        /\ TrueSet(prev) \subseteq TrueSet(cur)
        /\ cur.width = prev.width /\ cur.height = prev.height

C8_Witness ==
    /\ pc = "idle" /\ last = "fix"
    /\ TrueSet(prev) # {}
    /\ TrueSet(cur) # TrueSet(prev)

\* C10: on an image with a true pixel every call of remove_disjoint_components
\* returns: each invocation either returns or makes one recursive call, and
\* no call nests more than one recursive invocation; what is returned has the
\* dimensions of the input and true pixels that form exactly one 8-connected
\* component.
C10_TerminatesWithOneComponent ==
    /\ [](/\ pc = "running" => depth <= 1
          /\ pc = "panicked" => TrueSet(cur) = {}
          /\ RdcReturned =>
                /\ OneComponent(TrueSet(cur))
                /\ cur.width = prev.width /\ cur.height = prev.height)
    /\ [][pc = "running" =>
            \/ pc' = "idle" /\ last' = "rdc"
            \/ pc' = "panicked"
            \/ pc' = "running" /\ depth' = depth + 1]_vars

C10_Witness ==
    /\ RdcReturned
    /\ depth >= 1
    /\ Cardinality(ComponentSets(TrueSet(prev))) > 1
    /\ OneComponent(TrueSet(cur))

(***************************************************************************)
(* Properties of the Boolean algebra layer.                                *)
(***************************************************************************)
\* equality on the live pixels (x < width, y < height)
LiveEq(A, B) ==
    /\ SameSize(A, B)
    /\ \A c \in Coords(A) : get_pixel(A, c[1], c[2]) = get_pixel(B, c[1], c[2])

\* the stored bits at an index >= width * height
PadBits(img) == {i \in 1..Len(img.pixels) : i > img.width * img.height}

Differing(A, B) == {c \in Coords(A) : get_pixel(A, c[1], c[2]) # get_pixel(B, c[1], c[2])}

\* C4 (as claimed): diff_and_count is the number of canvas positions at
\* which the two images differ, however the images were built.
C4_CountsDifferingPixels ==
    count # NoCount => count[1] = Cardinality(Differing(a, b))

\* C7: on the live pixels diff is symmetric, diff with itself is all-false,
\* union and intersect are idempotent, negative flips every pixel and is an
\* involution.
C7_AlgebraOnLivePixels ==
    SameSize(a, b) =>
        /\ LiveEq(diff(a, b), diff(b, a))
        /\ TrueSet(diff(a, a)) = {}
        /\ LiveEq(union(a, a), a)
        /\ LiveEq(intersect(a, a), a)
        /\ LiveEq(negative(negative(a)), a)
        /\ \A c \in Coords(a) : get_pixel(negative(a), c[1], c[2]) = ~get_pixel(a, c[1], c[2])

C7_Witness ==
    /\ nops > 0
    /\ TrueSet(a) # {} /\ TrueSet(a) # Coords(a)
    /\ Differing(a, b) # {}
    /\ \E i \in PadBits(a) : a.pixels[i]
    /\ TrueSet(diff(a, b)) = Differing(a, b)

\* C9 (as claimed): every stored bit at an index >= width * height is false
\* in every image the operations produce.
C9_PadBitsFalse ==
    /\ \A i \in PadBits(a) : ~a.pixels[i]
    /\ \A i \in PadBits(b) : ~b.pixels[i]

(***************************************************************************)
(* Significance scorer.  The clusters of the image, and for each cluster   *)
(* its size, the mean and count of its skeleton and the length of its      *)
(* boundary, come from the collaborators: they are inputs of the call.     *)
(* The values of the model stay far below 2^32, so that neither the u64    *)
(* arithmetic wraps nor the final cast to u32 truncates.                   *)
(***************************************************************************)
scale == 4 * 128 * 128

ClusterStats ==
    [size : 1..SigMaxStat, mean : 0..SigMaxStat, count : 0..SigMaxStat,
     boundary : 1..SigMaxStat]

RECURSIVE SeqsUpTo(_, _)
SeqsUpTo(S, n) ==
    IF n = 0 THEN {<<>>}
    ELSE LET shorter == SeqsUpTo(S, n - 1)
         IN  shorter \cup {Append(q, e) : q \in shorter, e \in S}

Thresholds == (0..SigMaxThreshold) \cup {SigLargeThreshold}

\* the contribution of one cluster to diff
Contribution(cluster) ==
    (scale * cluster.size * cluster.mean * cluster.count) \div cluster.boundary

SigInit ==
    /\ clusters = <<>> /\ divisor = 0 /\ threshold = 0
    /\ sdiff = 0 /\ spc = "idle" /\ score = 0
    /\ AlgIdle /\ MorIdle /\ GeoIdle

\* significance(area, threshold) on an image of width w whose clusters are cl
SigCall(cl, ar, w, th) ==
    /\ spc = "idle"
    /\ clusters' = cl
    /\ sdiff' = 0
    /\ divisor' = ar * w
    /\ threshold' = th
    /\ spc' = "loop"
    /\ UNCHANGED <<score, algVars, morVars, geoVars>>

\* one iteration of the loop over the clusters
SigCluster ==
    /\ spc = "loop"
    /\ clusters # <<>>
    /\ sdiff' = sdiff + Contribution(Head(clusters))
    /\ clusters' = Tail(clusters)
    /\ spc' = IF sdiff' >= threshold * divisor THEN "break" ELSE "loop"
    /\ UNCHANGED <<divisor, threshold, score, algVars, morVars, geoVars>>

\* (diff / divisor) as u32; the division by a zero divisor panics
SigReturn ==
    /\ \/ spc = "loop" /\ clusters = <<>>
       \/ spc = "break"
    /\ IF divisor = 0
       THEN spc' = "panicked" /\ score' = score
       ELSE spc' = "done" /\ score' = sdiff \div divisor
    /\ UNCHANGED <<clusters, divisor, threshold, sdiff, algVars, morVars, geoVars>>

SigNext ==
    \/ /\ spc = "idle"
       /\ \E cl \in SeqsUpTo(ClusterStats, SigMaxClusters), ar \in 0..SigMaxArea,
             w \in 1..SigMaxWidth, th \in Thresholds : SigCall(cl, ar, w, th)
    \/ SigCluster
    \/ SigReturn

SigSpec == SigInit /\ [][SigNext]_vars

\* C3 (as claimed): with area * width > 0 the score significance returns is
\* at most threshold.
C3_ScoreAtMostThreshold ==
    spc = "done" => score <= threshold

(***************************************************************************)
(* Geometry kernel.  Points have integer coordinates; a computed point is  *)
(* the exact rational <<xn / d, yn / d>> (the rounding of f64 is not       *)
(* modelled).                                                              *)
(***************************************************************************)
\* EPSILON = 1e-7; the compared values are integers
EpsilonInverse == 10000000

LeEpsilon(v) == v * EpsilonInverse <= 1

Some(xn, yn, d) == <<"Some", xn, yn, d>>
None == <<"None">>

find_mid_point(q1, q2) == Some(q1[1] + q2[1], q1[2] + q2[2], 2)

try_find_intersection(q1, q2, q3, q4) ==
    LET denom == (q4[2] - q3[2]) * (q2[1] - q1[1]) - (q4[1] - q3[1]) * (q2[2] - q1[2])
        numera == (q4[1] - q3[1]) * (q1[2] - q3[2]) - (q4[2] - q3[2]) * (q1[1] - q3[1])
        numerb == (q2[1] - q1[1]) * (q1[2] - q3[2]) - (q2[2] - q1[2]) * (q1[1] - q3[1])
    IN  IF LeEpsilon(denom) /\ LeEpsilon(numera) /\ LeEpsilon(numerb)
        THEN find_mid_point(q2, q3)
        ELSE IF LeEpsilon(denom)
        THEN None
        ELSE \* p1 + mua * (p2 - p1) with mua = numera / denom
             Some(q1[1] * denom + numera * (q2[1] - q1[1]),
                  q1[2] * denom + numera * (q2[2] - q1[2]),
                  denom)

Grid == (-GeoMax..GeoMax) \X (-GeoMax..GeoMax)

GeoInit ==
    /\ p1 \in Grid /\ p2 \in Grid /\ p3 \in Grid /\ p4 \in Grid
    /\ gpc = "idle" /\ found = None /\ aborted = FALSE
    /\ AlgIdle /\ MorIdle /\ SigIdle

GeoTryFindIntersection ==
    /\ gpc = "idle"
    /\ found' = try_find_intersection(p1, p2, p3, p4)
    /\ gpc' = "tried"
    /\ UNCHANGED <<p1, p2, p3, p4, aborted, algVars, morVars, sigVars>>

\* find_intersection: Option::expect aborts on None
GeoFindIntersection ==
    /\ gpc = "idle"
    /\ found' = try_find_intersection(p1, p2, p3, p4)
    /\ aborted' = (found' = None)
    /\ gpc' = "found"
    /\ UNCHANGED <<p1, p2, p3, p4, algVars, morVars, sigVars>>

GeoNext == GeoTryFindIntersection \/ GeoFindIntersection

GeoSpec == GeoInit /\ [][GeoNext]_vars

Cross(u, v) == u[1] * v[2] - u[2] * v[1]
Minus(u, v) == <<u[1] - v[1], u[2] - v[2]>>

TwoLines == p1 # p2 /\ p3 # p4
ParallelLines == TwoLines /\ Cross(Minus(p2, p1), Minus(p4, p3)) = 0
CoincidentLines == ParallelLines /\ Cross(Minus(p2, p1), Minus(p3, p1)) = 0

\* the computed point <<xn / d, yn / d>> lies on the line through u and v
OnLine(r, u, v) ==
    (v[1] - u[1]) * (r[3] - u[2] * r[4]) - (v[2] - u[2]) * (r[2] - u[1] * r[4]) = 0

\* C5 (as claimed): for parallel lines that do not coincide
\* try_find_intersection returns None and find_intersection aborts.
C5_ParallelIsNone ==
    (ParallelLines /\ ~CoincidentLines) =>
        /\ gpc = "tried" => found = None
        /\ gpc = "found" => aborted

\* C6 (as claimed): for lines that are not parallel try_find_intersection
\* returns the point that lies on both lines, in whatever order the
\* endpoints of each line are given.
C6_CrossingIsIntersection ==
    (gpc = "tried" /\ TwoLines /\ ~ParallelLines) =>
        /\ found # None
        /\ OnLine(found, p1, p2)
        /\ OnLine(found, p3, p4)

====
